---- MODULE Spec2Model ----
(***************************************************************************)
(* A model of Vendek: the winit application shell (src/src/app.rs), the    *)
(* GPU resource manager and frame pipeline (src/src/gpu.rs) and the world  *)
(* generator (src/src/world.rs).                                           *)
(*                                                                         *)
(* Spec     the application: resumed / window_event driving GpuState       *)
(* SpecGen  two independent invocations of HoneycombWorld::generate        *)
(* SpecGrid an invocation of SpatialGrid::build on a sequence of seeds     *)
(***************************************************************************)
EXTENDS Integers, Sequences, FiniteSets, TLC

VARIABLES
    target,           \* build target: "native" or "wasm32" (cfg(target_arch))
    overflow_checks,  \* build profile: TRUE when integer overflow panics
    phase,            \* App.phase: "Uninitialized" | "Initializing" | "Running"
    init_task,        \* wasm32 spawn_local future: "none" | "running" | "done"
    pending,          \* wasm32 PENDING_STATE: <<>> (None) or <<gpu>> (Some)
    gpu,              \* AppState.gpu (NoGpu until the phase is Running)
    time,             \* AppState.time
    keys_held,        \* AppState.input.keys_held
    exit_requested,   \* event_loop.exit() has been called
    crashed,          \* the process has panicked
    next_texture_id,  \* textures created so far by the device
    last,             \* the most recent event and the calls its handler made
    runs,             \* SpecGen: the state of each invocation of generate
    wall_clock,       \* SpecGen: the environment's clock
    grid              \* SpecGrid: an invocation of SpatialGrid::build

appVars == <<target, overflow_checks, phase, init_task, pending, gpu, time,
             keys_held, exit_requested, crashed, next_texture_id, last>>
genVars == <<runs, wall_clock>>
gridVars == <<grid>>
vars == <<target, overflow_checks, phase, init_task, pending, gpu, time,
          keys_held, exit_requested, crashed, next_texture_id, last,
          runs, wall_clock, grid>>

(***************************************************************************)
(* u32 values.  TLC's integers stop at 2^31 - 1, so a u32 is kept as the   *)
(* pair <<high 16 bits, low 16 bits>>.                                     *)
(***************************************************************************)
Half == 2 ^ 16

U32(n) == <<n \div Half, n % Half>>

U32Max == <<Half - 1, Half - 1>>

\* a < n, for a u32 a and a natural n <= 2^16
U32Lt(a, n) == a[1] = 0 /\ a[2] < n

\* u32::max(a, n), for a natural n <= 2^16
U32AtLeast(a, n) == IF U32Lt(a, n) THEN U32(n) ELSE a

\* a + k overflows u32, for a natural k < 2^16
AddOverflows(a, k) == a[1] = Half - 1 /\ a[2] + k >= Half

\* a.wrapping_add(k)
WrappingAdd(a, k) ==
    LET lo == a[2] + k
    IN  <<(a[1] + (lo \div Half)) % Half, lo % Half>>

\* a / 8 (fits a TLC integer: it is below 2^29)
Div8(a) == a[1] * (Half \div 8) + (a[2] \div 8)

\* `a as f32`: exact below 2^24, else rounded to nearest, ties to even, at
\* the 24-bit precision of the f32 mantissa.  The result is integer valued
\* and may be 2^32, kept as <<2^16, 0>>.
RECURSIVE Ulp(_, _)
Ulp(hi, u) == IF hi < 256 * u THEN u ELSE Ulp(hi, 2 * u)

AsF32(a) ==
    IF a[1] < 256 THEN a
    ELSE LET u    == Ulp(a[1], 1)
             q    == a[2] \div u
             r    == a[2] % u
             up   == (2 * r > u) \/ (2 * r = u /\ q % 2 = 1)
             lo   == (IF up THEN q + 1 ELSE q) * u
         IN  IF lo = Half THEN <<a[1] + 1, 0>> ELSE <<a[1], lo>>

PhysicalSize(w, h) == [width |-> w, height |-> h]

(***************************************************************************)
(* Bounds of the model and the inputs the environment may supply.          *)
(***************************************************************************)
\* textures the device may create before the model stops resizing
MaxTextures == 3
\* the elapsed time is capped at this many ticks
MaxTime == 1

\* widths and heights a window, a Resized event or the browser may report
Widths == {U32(0), U32(99), U32(1280), U32(1281), <<Half - 1, Half - 7>>}
Heights == {U32(0), U32(720), U32(721)}
SizeInputs == {PhysicalSize(w, h) : w \in Widths, h \in Heights}

\* the browser window's inner size
WebInnerSizes ==
    {PhysicalSize(U32(0), U32(0)), PhysicalSize(U32(99), U32(720)),
     PhysicalSize(U32(800), U32(600))}

\* what the browser reports when GpuState::new or GpuState::resize, given
\* size sz, uses the window's inner size: only wasm32 code does, and only
\* for a width or height below 100
WebInnerInputs(tgt, sz) ==
    IF tgt = "wasm32" /\ (U32Lt(sz.width, 100) \/ U32Lt(sz.height, 100))
    THEN WebInnerSizes
    ELSE {PhysicalSize(U32(0), U32(0))}

\* frame times (dt) in ticks
DtInputs == {0, 1}

\* wgpu::SurfaceError
SurfaceErrors == {"Timeout", "Outdated", "Lost", "OutOfMemory"}
AcquireOutcomes == {"Ok"} \cup SurfaceErrors

Targets == {"native", "wasm32"}

(***************************************************************************)
(* gpu.rs: runtime parameters.  f32 values are kept in thousandths.        *)
(***************************************************************************)
MAX_STEPS == 128
STEP_SIZE == 150
MEMBRANE_THICKNESS == 400
MEMBRANE_GLOW == 500
VOLUME_MIN == <<-12000, -12000, -12000>>
VOLUME_MAX == <<12000, 12000, 12000>>

RuntimeParamsDefault ==
    [membrane_thickness |-> MEMBRANE_THICKNESS,
     membrane_glow      |-> MEMBRANE_GLOW,
     step_size          |-> STEP_SIZE,
     density            |-> 1000,
     max_steps          |-> MAX_STEPS,
     enable_coupling    |-> TRUE,
     palette            |-> 0]

\* what window.vendekParams may hold on wasm32 (one sample besides the
\* defaults); every field is read with its default when absent
JsParams ==
    {RuntimeParamsDefault,
     [membrane_thickness |-> 250, membrane_glow |-> 900, step_size |-> 100,
      density |-> 2000, max_steps |-> 64, enable_coupling |-> FALSE,
      palette |-> 2]}

\* read_js_params(): the values render may read, per target
ReadJsParams(tgt) == IF tgt = "wasm32" THEN JsParams ELSE {RuntimeParamsDefault}

\* a slip: the coupling flag is written as enabled whatever the tunable says
RaymarchParamsCouplingOn(rp) ==
    [volume_min         |-> VOLUME_MIN,
     _pad0              |-> 0,
     volume_max         |-> VOLUME_MAX,
     _pad1              |-> 0,
     max_steps          |-> rp.max_steps,
     step_size          |-> rp.step_size,
     membrane_thickness |-> rp.membrane_thickness,
     membrane_glow      |-> rp.membrane_glow,
     density_multiplier |-> rp.density,
     enable_coupling    |-> 1000,
     palette            |-> rp.palette,
     _pad2              |-> 0]

\* render: the RaymarchParams record packed from the runtime parameters
RaymarchParamsOf(rp) ==
    [volume_min         |-> VOLUME_MIN,
     _pad0              |-> 0,
     volume_max         |-> VOLUME_MAX,
     _pad1              |-> 0,
     max_steps          |-> rp.max_steps,
     step_size          |-> rp.step_size,
     membrane_thickness |-> rp.membrane_thickness,
     membrane_glow      |-> rp.membrane_glow,
     density_multiplier |-> rp.density,
     enable_coupling    |-> IF rp.enable_coupling THEN 1000 ELSE 0,
     palette            |-> rp.palette,
     _pad2              |-> 0]

(***************************************************************************)
(* gpu.rs: GpuState.                                                       *)
(***************************************************************************)
\* a slip: the texture is created with width and height exchanged
create_storage_texture_transposed(id, width, height) ==
    [id |-> id, width |-> height, height |-> width, format |-> "Rgba16Float"]

\* GpuState::create_storage_texture: a new texture (and its default view)
create_storage_texture(id, width, height) ==
    [id |-> id, width |-> width, height |-> height, format |-> "Rgba16Float"]

\* the compute bind group 1: the storage view of a texture, under layout 1
ComputeBindGroup1(layout, view) ==
    [layout |-> layout, texture_view |-> view]

\* the render bind group: a sampling view of a texture plus the sampler
RenderBindGroup(layout, view, sampler) ==
    [layout |-> layout, texture_view |-> view, sampler |-> sampler]

\* the value of AppState.gpu before a GpuState exists
NoGpu ==
    [size |-> PhysicalSize(U32(0), U32(0)),
     surface |-> [width |-> U32(0), height |-> U32(0)],
     config |-> [width |-> U32(0), height |-> U32(0), format |-> "none"],
     compute_pipeline |-> "none",
     compute_bind_group_0 |-> "none",
     compute_bind_group_1 |-> ComputeBindGroup1("none", 0),
     compute_bind_group_layout_1 |-> "none",
     render_pipeline |-> "none",
     render_bind_group |-> RenderBindGroup("none", 0, "none"),
     render_bind_group_layout |-> "none",
     frame_uniform_buffer |-> [resolution |-> <<U32(0), U32(0)>>, time |-> 0],
     raymarch_params_buffer |-> RaymarchParamsOf(RuntimeParamsDefault),
     phases_buffer |-> "none",
     cells_buffer |-> "none",
     storage_texture |-> create_storage_texture(0, U32(0), U32(0)),
     storage_texture_view |-> 0,
     sampler |-> "none"]

\* a slip: the window's inner size is taken without the lower bound of 1
InitialSizeUnclamped(inner, web_inner, tgt) ==
    IF tgt = "wasm32" /\ (U32Lt(inner.width, 100) \/ U32Lt(inner.height, 100))
    THEN PhysicalSize(U32AtLeast(web_inner.width, 100),
                      U32AtLeast(web_inner.height, 100))
    ELSE inner

\* GpuState::new: the size the surface is first configured with
InitialSize(inner, web_inner, tgt) ==
    LET width  == U32AtLeast(inner.width, 1)
        height == U32AtLeast(inner.height, 1)
    IN  IF tgt = "wasm32" /\ (U32Lt(width, 100) \/ U32Lt(height, 100))
        THEN PhysicalSize(U32AtLeast(web_inner.width, 100),
                          U32AtLeast(web_inner.height, 100))
        ELSE PhysicalSize(width, height)

\* GpuState::new
GpuStateNew(inner, web_inner, tgt, id) ==
    LET sz  == InitialSize(inner, web_inner, tgt)
        tex == create_storage_texture(id, sz.width, sz.height)
    IN  [size |-> sz,
         surface |-> [width |-> sz.width, height |-> sz.height],
         config |-> [width |-> sz.width, height |-> sz.height, format |-> "surface_format"],
         compute_pipeline |-> "compute_pipeline",
         compute_bind_group_0 |-> "compute_bind_group_0",
         compute_bind_group_1 |-> ComputeBindGroup1("compute_bind_group_layout_1", tex.id),
         compute_bind_group_layout_1 |-> "compute_bind_group_layout_1",
         render_pipeline |-> "render_pipeline",
         render_bind_group |->
             RenderBindGroup("render_bind_group_layout", tex.id, "sampler"),
         render_bind_group_layout |-> "render_bind_group_layout",
         frame_uniform_buffer |->
             [resolution |-> <<AsF32(sz.width), AsF32(sz.height)>>, time |-> 0],
         raymarch_params_buffer |-> RaymarchParamsOf(RuntimeParamsDefault),
         phases_buffer |-> "phases_buffer",
         cells_buffer |-> "cells_buffer",
         storage_texture |-> tex,
         storage_texture_view |-> tex.id,
         sampler |-> "sampler"]

\* GpuState::resize: the dimensions it goes on with (on wasm32 a dimension
\* below 100 makes it take the browser window's inner size instead)
ResizeDims(new_size, web_inner, tgt) ==
    IF tgt = "wasm32" /\ (U32Lt(new_size.width, 100) \/ U32Lt(new_size.height, 100))
    THEN web_inner
    ELSE new_size

\* the device, queue and surface calls of an effective resize, in order
ResizeCalls ==
    <<"surface.configure", "device.create_texture", "texture.create_view",
      "device.create_bind_group", "texture.create_view", "device.create_bind_group">>

\* a slip: `||` for `&&` in resize's guard
ResizeGuardEitherNonZero(width, height) == width # U32(0) \/ height # U32(0)

\* GpuState::resize: the guard of its reconfiguring branch
ResizeGuard(width, height) == width # U32(0) /\ height # U32(0)

\* GpuState::resize takes its reconfiguring branch
ResizeEffective(new_size, web_inner, tgt) ==
    LET d == ResizeDims(new_size, web_inner, tgt)
    IN  ResizeGuard(d.width, d.height)

\* a slip: resize leaves the display-read bind group bound to the old image
KeptRenderBindGroup(g, tex) == g.render_bind_group

\* GpuState::resize: the display-read bind group it creates for texture tex
NewRenderBindGroup(g, tex) ==
    RenderBindGroup(g.render_bind_group_layout, tex.id, g.sampler)

\* GpuState::resize: the compute-write bind group it creates for texture tex
NewComputeBindGroup1(g, tex) ==
    ComputeBindGroup1(g.compute_bind_group_layout_1, tex.id)

\* the GpuState an effective resize to d leaves, except for what a slip adds
ResizedState(g, d, id) ==
    LET tex == create_storage_texture(id, d.width, d.height)
    IN  [g EXCEPT !.size = PhysicalSize(d.width, d.height),
                  !.config.width = d.width,
                  !.config.height = d.height,
                  !.surface = [width |-> d.width, height |-> d.height],
                  !.storage_texture = tex,
                  !.storage_texture_view = tex.id,
                  !.compute_bind_group_1 = NewComputeBindGroup1(g, tex),
                  !.render_bind_group = NewRenderBindGroup(g, tex)]

\* a slip: resize returns early when the dimensions are the recorded ones
ResizeSkipsSameSize(g, new_size, web_inner, tgt, id) ==
    LET d == ResizeDims(new_size, web_inner, tgt)
    IN  IF ResizeGuard(d.width, d.height) /\ PhysicalSize(d.width, d.height) # g.size
        THEN [gpu |-> ResizedState(g, d, id), calls |-> ResizeCalls]
        ELSE [gpu |-> g, calls |-> <<>>]

\* a slip: resize also creates a new sampler
ResizeRecreatesSampler(g, new_size, web_inner, tgt, id) ==
    LET d == ResizeDims(new_size, web_inner, tgt)
    IN  IF ResizeGuard(d.width, d.height)
        THEN [gpu |-> [ResizedState(g, d, id) EXCEPT !.sampler = "sampler (recreated)"],
              calls |-> ResizeCalls]
        ELSE [gpu |-> g, calls |-> <<>>]

\* GpuState::resize; id is the identity of the texture the device creates.
\* The result is the GpuState afterwards and the calls made.
Resize(g, new_size, web_inner, tgt, id) ==
    LET d == ResizeDims(new_size, web_inner, tgt)
    IN  IF ResizeGuard(d.width, d.height)
        THEN LET tex == create_storage_texture(id, d.width, d.height)
             IN  [gpu |->
                    [g EXCEPT
                       !.size = PhysicalSize(d.width, d.height),
                       !.config.width = d.width,
                       !.config.height = d.height,
                       !.surface = [width |-> d.width, height |-> d.height],
                       !.storage_texture = tex,
                       !.storage_texture_view = tex.id,
                       !.compute_bind_group_1 = NewComputeBindGroup1(g, tex),
                       !.render_bind_group = NewRenderBindGroup(g, tex)],
                  calls |-> ResizeCalls]
        ELSE [gpu |-> g, calls |-> <<>>]

\* render: the calls up to and including the surface acquisition
RenderCallsToAcquire ==
    <<"queue.write_buffer(frame_uniform_buffer)",
      "queue.write_buffer(raymarch_params_buffer)",
      "surface.get_current_texture">>

\* render: the calls after a successful acquisition
RenderCallsAfterAcquire ==
    <<"device.create_command_encoder", "begin_compute_pass", "dispatch_workgroups",
      "begin_render_pass", "draw(0..3)", "queue.submit", "present">>

\* (n + 7) / 8 in u32 arithmetic, in a build where overflow wraps
Workgroups(n) == Div8(WrappingAdd(n, 7))

\* a slip: the surface image is acquired before the uniform buffers are
\* written, so a failed acquisition leaves the buffers as they were
RenderAcquiresFirst(g, t, rp, outcome, oc) ==
    LET frame_uniforms ==
            [resolution |-> <<AsF32(g.size.width), AsF32(g.size.height)>>,
             time |-> t]
        g1 == [g EXCEPT !.frame_uniform_buffer = frame_uniforms,
                        !.raymarch_params_buffer = RaymarchParamsOf(rp)]
    IN  IF outcome # "Ok"
        THEN [gpu |-> g, result |-> outcome, calls |-> <<"surface.get_current_texture">>,
              dispatch |-> <<>>, compute_target |-> 0, sampled |-> 0]
        ELSE [gpu |-> g1, result |-> "Ok",
              calls |-> RenderCallsToAcquire \o RenderCallsAfterAcquire,
              dispatch |-> <<Workgroups(g.size.width), Workgroups(g.size.height), 1>>,
              compute_target |-> g.compute_bind_group_1.texture_view,
              sampled |-> g.render_bind_group.texture_view]

\* a slip: render recreates the intermediate image for every frame
RenderRecreatesImage(g, t, rp, outcome, oc) ==
    LET frame_uniforms ==
            [resolution |-> <<AsF32(g.size.width), AsF32(g.size.height)>>,
             time |-> t]
        g1 == [g EXCEPT !.frame_uniform_buffer = frame_uniforms,
                        !.raymarch_params_buffer = RaymarchParamsOf(rp),
                        !.storage_texture.id = g.storage_texture.id + 1]
    IN  IF outcome # "Ok"
        THEN [gpu |-> g1, result |-> outcome, calls |-> RenderCallsToAcquire,
              dispatch |-> <<>>, compute_target |-> 0, sampled |-> 0]
        ELSE [gpu |-> g1, result |-> "Ok",
              calls |-> RenderCallsToAcquire \o RenderCallsAfterAcquire,
              dispatch |-> <<Workgroups(g.size.width), Workgroups(g.size.height), 1>>,
              compute_target |-> g.compute_bind_group_1.texture_view,
              sampled |-> g.render_bind_group.texture_view]

\* a slip: the surface image is presented before the commands are submitted
RenderPresentsUnsubmitted(g, t, rp, outcome, oc) ==
    LET frame_uniforms ==
            [resolution |-> <<AsF32(g.size.width), AsF32(g.size.height)>>,
             time |-> t]
        g1 == [g EXCEPT !.frame_uniform_buffer = frame_uniforms,
                        !.raymarch_params_buffer = RaymarchParamsOf(rp)]
    IN  IF outcome # "Ok"
        THEN [gpu |-> g1, result |-> outcome, calls |-> RenderCallsToAcquire,
              dispatch |-> <<>>, compute_target |-> 0, sampled |-> 0]
        ELSE [gpu |-> g1, result |-> "Ok",
              calls |-> RenderCallsToAcquire \o
                        <<"device.create_command_encoder", "begin_compute_pass",
                          "dispatch_workgroups", "begin_render_pass", "draw(0..3)",
                          "present", "queue.submit">>,
              dispatch |-> <<Workgroups(g.size.width), Workgroups(g.size.height), 1>>,
              compute_target |-> g.compute_bind_group_1.texture_view,
              sampled |-> g.render_bind_group.texture_view]

\* GpuState::render with elapsed time t, the runtime parameters rp that
\* read_js_params returned, and the outcome of surface.get_current_texture;
\* oc says whether the build panics on integer overflow.  The result is the
\* GpuState afterwards, the Result returned ("panic" when it unwinds), the
\* calls made, the workgroups dispatched and the textures the two passes
\* were bound to.
Render(g, t, rp, outcome, oc) ==
    LET frame_uniforms ==
            [resolution |-> <<AsF32(g.size.width), AsF32(g.size.height)>>,
             time |-> t]
        g1 == [g EXCEPT !.frame_uniform_buffer = frame_uniforms,
                        !.raymarch_params_buffer = RaymarchParamsOf(rp)]
        skipped(res, calls) ==
            [gpu |-> g1, result |-> res, calls |-> calls, dispatch |-> <<>>,
             compute_target |-> 0, sampled |-> 0]
    IN  IF outcome # "Ok"
        THEN skipped(outcome, RenderCallsToAcquire)
        ELSE IF oc /\ (AddOverflows(g.size.width, 7) \/ AddOverflows(g.size.height, 7))
        THEN skipped("panic", RenderCallsToAcquire \o
                              <<"device.create_command_encoder", "begin_compute_pass">>)
        ELSE [gpu |-> g1, result |-> "Ok",
              calls |-> RenderCallsToAcquire \o RenderCallsAfterAcquire,
              dispatch |-> <<Workgroups(g.size.width), Workgroups(g.size.height), 1>>,
              compute_target |-> g.compute_bind_group_1.texture_view,
              sampled |-> g.render_bind_group.texture_view]

(***************************************************************************)
(* app.rs: the application.                                                *)
(***************************************************************************)
Keys == {"Escape"}
ElementStates == {"Pressed", "Released"}

\* what `last` records of a handler that called neither resize nor render
NoCalls ==
    [result |-> "None", calls |-> <<>>, dispatch |-> <<>>,
     compute_target |-> 0, sampled |-> 0]

NoSize == PhysicalSize(U32(0), U32(0))

\* App::window_event, first step: on wasm32 a pending GpuState is taken and
\* the phase becomes Running
Promoted == target = "wasm32" /\ phase = "Initializing" /\ pending # <<>>
PhaseNow == IF Promoted THEN "Running" ELSE phase
GpuNow == IF Promoted THEN pending[1] ELSE gpu
TimeNow == IF Promoted THEN 0 ELSE time
KeysNow == IF Promoted THEN {} ELSE keys_held
PendingNow == IF Promoted THEN <<>> ELSE pending

\* `last`: the event, whether its handler found the application Running,
\* the size a Resized event carried and whether that was the recorded size,
\* the browser window's inner size had the handler asked for it, and what
\* Render / Resize reported
LastOf(event, handled, size, web_inner, r) ==
    [event |-> event, handled |-> handled, size |-> size, web_inner |-> web_inner,
     same_size |-> handled /\ event = "Resized" /\ size = GpuNow.size,
     result |-> r.result, calls |-> r.calls, dispatch |-> r.dispatch,
     compute_target |-> r.compute_target, sampled |-> r.sampled]

\* the process still receives events
Alive == ~exit_requested /\ ~crashed

\* a slip: resumed without its early return, so that every notification
\* starts an initialization
ResumedAgain ==
    /\ Alive
    /\ last' = LastOf("resumed", TRUE, NoSize, NoSize, NoCalls)
    /\ IF target = "wasm32"
       THEN /\ phase' = "Initializing"
            /\ init_task' = "running"
            /\ UNCHANGED <<gpu, next_texture_id>>
       ELSE /\ phase' = "Running"
            /\ \E inner \in SizeInputs :
                   gpu' = GpuStateNew(inner, NoSize, target, next_texture_id + 1)
            /\ next_texture_id' = next_texture_id + 1
            /\ UNCHANGED init_task
    /\ UNCHANGED <<target, overflow_checks, pending, time, keys_held,
                   exit_requested, crashed, genVars, gridVars>>

\* App::resumed
Resumed ==
    /\ Alive
    /\ last' = LastOf("resumed", phase = "Uninitialized", NoSize, NoSize, NoCalls)
    /\ IF phase # "Uninitialized"
       THEN UNCHANGED <<phase, init_task, gpu, next_texture_id>>
       ELSE IF target = "wasm32"
       THEN /\ phase' = "Initializing"
            /\ init_task' = "running"
            /\ UNCHANGED <<gpu, next_texture_id>>
       ELSE /\ phase' = "Running"
            /\ \E inner \in SizeInputs :
                   gpu' = GpuStateNew(inner, NoSize, target, next_texture_id + 1)
            /\ next_texture_id' = next_texture_id + 1
            /\ UNCHANGED init_task
    /\ UNCHANGED <<target, overflow_checks, pending, time, keys_held,
                   exit_requested, crashed, genVars, gridVars>>

\* wasm32: the future spawned by App::resumed runs to completion and stores
\* the GpuState in PENDING_STATE
InitTaskCompletes ==
    /\ Alive
    /\ init_task = "running"
    /\ init_task' = "done"
    /\ \E inner \in SizeInputs :
           \E web_inner \in WebInnerInputs(target, PhysicalSize(U32AtLeast(inner.width, 1),
                                                                U32AtLeast(inner.height, 1))) :
               pending' = <<GpuStateNew(inner, web_inner, target, next_texture_id + 1)>>
    /\ next_texture_id' = next_texture_id + 1
    /\ last' = LastOf("init_task", FALSE, NoSize, NoSize, NoCalls)
    /\ UNCHANGED <<target, overflow_checks, phase, gpu, time, keys_held,
                   exit_requested, crashed, genVars, gridVars>>

\* a slip: a close request is honoured although the phase is not Running
DroppedButCloses(event, size) ==
    /\ PhaseNow # "Running"
    /\ last' = LastOf(event, FALSE, size, NoSize, NoCalls)
    /\ exit_requested' = (event = "CloseRequested")
    /\ UNCHANGED <<target, overflow_checks, phase, init_task, pending, gpu, time,
                   keys_held, crashed, next_texture_id, genVars, gridVars>>

\* App::window_event while the phase is not Running: the event is dropped
Dropped(event, size) ==
    /\ PhaseNow # "Running"
    /\ last' = LastOf(event, FALSE, size, NoSize, NoCalls)
    /\ UNCHANGED <<target, overflow_checks, phase, init_task, pending, gpu, time,
                   keys_held, exit_requested, crashed, next_texture_id, genVars, gridVars>>

\* App::window_event, WindowEvent::CloseRequested
CloseRequested ==
    /\ Alive
    /\ \/ Dropped("CloseRequested", NoSize)
       \/ /\ PhaseNow = "Running"
          /\ phase' = PhaseNow /\ pending' = PendingNow /\ gpu' = GpuNow
          /\ time' = TimeNow /\ keys_held' = KeysNow
          /\ exit_requested' = TRUE
          /\ last' = LastOf("CloseRequested", TRUE, NoSize, NoSize, NoCalls)
          /\ UNCHANGED <<target, overflow_checks, init_task, crashed,
                         next_texture_id, genVars, gridVars>>

\* App::window_event, WindowEvent::Resized
Resized(new_size, web_inner) ==
    /\ Alive
    /\ \/ Dropped("Resized", new_size)
       \/ /\ PhaseNow = "Running"
          /\ ResizeEffective(new_size, web_inner, target) => next_texture_id < MaxTextures
          /\ \E rz \in {Resize(GpuNow, new_size, web_inner, target, next_texture_id + 1)} :
                 /\ gpu' = rz.gpu
                 /\ next_texture_id' =
                        IF rz.calls # <<>> THEN next_texture_id + 1 ELSE next_texture_id
                 /\ last' = LastOf("Resized", TRUE, new_size, web_inner,
                                   [NoCalls EXCEPT !.calls = rz.calls])
          /\ phase' = PhaseNow /\ pending' = PendingNow
          /\ time' = TimeNow /\ keys_held' = KeysNow
          /\ UNCHANGED <<target, overflow_checks, init_task, exit_requested,
                         crashed, genVars, gridVars>>

\* InputState::handle_key
handle_key(held, code, state) ==
    IF state = "Pressed" THEN held \cup {code} ELSE held \ {code}

\* App::window_event, WindowEvent::KeyboardInput
KeyboardInput(code, state) ==
    /\ Alive
    /\ \/ Dropped("KeyboardInput", NoSize)
       \/ /\ PhaseNow = "Running"
          /\ keys_held' = handle_key(KeysNow, code, state)
          /\ exit_requested' = (code = "Escape" /\ state = "Pressed")
          /\ phase' = PhaseNow /\ pending' = PendingNow /\ gpu' = GpuNow
          /\ time' = TimeNow
          /\ last' = LastOf("KeyboardInput", TRUE, NoSize, NoSize, NoCalls)
          /\ UNCHANGED <<target, overflow_checks, init_task, crashed,
                         next_texture_id, genVars, gridVars>>

\* a slip: a lost surface is only logged, like the other errors
OnRenderResultNoRecovery(r, web_inner, tgt, id) ==
    IF r.result = "OutOfMemory"
    THEN [gpu |-> r.gpu, calls |-> <<>>, exit |-> TRUE]
    ELSE [gpu |-> r.gpu, calls |-> <<>>, exit |-> FALSE]

\* a slip: a lost surface ends the event loop too
OnRenderResultLostExits(r, web_inner, tgt, id) ==
    IF r.result = "Lost"
    THEN LET rz == Resize(r.gpu, r.gpu.size, web_inner, tgt, id)
         IN  [gpu |-> rz.gpu, calls |-> rz.calls, exit |-> TRUE]
    ELSE IF r.result = "OutOfMemory"
    THEN [gpu |-> r.gpu, calls |-> <<>>, exit |-> TRUE]
    ELSE [gpu |-> r.gpu, calls |-> <<>>, exit |-> FALSE]

\* a slip: an outdated surface is reconfigured like a lost one
OnRenderResultOutdatedResizes(r, web_inner, tgt, id) ==
    IF r.result \in {"Lost", "Outdated"}
    THEN LET rz == Resize(r.gpu, r.gpu.size, web_inner, tgt, id)
         IN  [gpu |-> rz.gpu, calls |-> rz.calls, exit |-> FALSE]
    ELSE IF r.result = "OutOfMemory"
    THEN [gpu |-> r.gpu, calls |-> <<>>, exit |-> TRUE]
    ELSE [gpu |-> r.gpu, calls |-> <<>>, exit |-> FALSE]

\* App::window_event, RedrawRequested: the match on what render returned
\* (r is Render's result).  The result is the GpuState afterwards, the calls
\* a resize made, and whether event_loop.exit() was called.
OnRenderResult(r, web_inner, tgt, id) ==
    IF r.result = "Lost"
    THEN LET rz == Resize(r.gpu, r.gpu.size, web_inner, tgt, id)
         IN  [gpu |-> rz.gpu, calls |-> rz.calls, exit |-> FALSE]
    ELSE IF r.result = "OutOfMemory"
    THEN [gpu |-> r.gpu, calls |-> <<>>, exit |-> TRUE]
    ELSE [gpu |-> r.gpu, calls |-> <<>>, exit |-> FALSE]

\* App::window_event, WindowEvent::RedrawRequested
RedrawRequested(dt, rp, outcome, web_inner) ==
    /\ Alive
    /\ \/ Dropped("RedrawRequested", NoSize)
       \/ /\ PhaseNow = "Running"
          /\ TimeNow + dt <= MaxTime
          /\ outcome = "Lost" /\ ResizeEffective(GpuNow.size, web_inner, target)
                => next_texture_id < MaxTextures
          /\ \E r \in {Render(GpuNow, TimeNow + dt, rp, outcome, overflow_checks)} :
              \E m \in {OnRenderResult(r, web_inner, target, next_texture_id + 1)} :
                 /\ gpu' = m.gpu
                 /\ next_texture_id' =
                        IF m.calls # <<>> THEN next_texture_id + 1 ELSE next_texture_id
                 /\ exit_requested' = m.exit
                 /\ crashed' = (r.result = "panic")
                 /\ last' = LastOf("RedrawRequested", TRUE, NoSize, web_inner,
                                   [r EXCEPT !.calls = r.calls \o m.calls])
          /\ time' = TimeNow + dt
          /\ phase' = PhaseNow /\ pending' = PendingNow /\ keys_held' = KeysNow
          /\ UNCHANGED <<target, overflow_checks, init_task, genVars, gridVars>>

\* the GpuState::render calls' inputs a RedrawRequested may meet
RedrawInputs ==
    \E dt \in DtInputs, outcome \in AcquireOutcomes, rp \in ReadJsParams(target) :
        \E web_inner \in (IF outcome = "Lost" THEN WebInnerInputs(target, GpuNow.size)
                                              ELSE {NoSize}) :
            RedrawRequested(dt, rp, outcome, web_inner)

(***************************************************************************)
(* world.rs: HoneycombWorld::generate.  f32 values are kept in thousandths.*)
(***************************************************************************)
\* bounds on the arguments of generate
MaxSeed == 2
MaxCells == 2
MaxPhases == 2
\* the generator's 32-bit output words are modelled with this many bits
WordBits == 4
\* the environment's clock runs up to here
MaxClock == 1

WordRange == 2 ^ WordBits

\* a slip: the generator is seeded from the seed and the time of day
SeedFromClock(seed) == [key |-> seed + wall_clock, pos |-> 0]

\* ChaCha8Rng::seed_from_u64: the stream is a function of the seed alone
SeedFromU64(seed) == [key |-> seed, pos |-> 0]

\* the word at the generator's position (a stand-in for the ChaCha8 block
\* function: a fixed function of key and position that meets every word)
NextWord(rng) == (rng.pos * (2 * rng.key + 1) + 3 * rng.key + 1) % WordRange

Advance(rng) == [rng EXCEPT !.pos = rng.pos + 1]

\* rng.gen_range(lo..hi) for f32: lo + (hi - lo) * [0, 1), from one word
GenRangeF32(rng, lo, hi) ==
    [value |-> lo + ((hi - lo) * NextWord(rng)) \div WordRange, rng |-> Advance(rng)]

\* u32::leading_zeros, at the modelled word size
RECURSIVE LeadingZeros(_, _)
LeadingZeros(n, bits) ==
    IF bits = 0 \/ n >= 2 ^ (bits - 1) THEN 0 ELSE 1 + LeadingZeros(n, bits - 1)

\* UniformInt::sample_single_inclusive(0, range - 1): widening multiply,
\* rejecting the words whose low half falls beyond the zone
RECURSIVE SampleBelow(_, _)
SampleBelow(rng, range) ==
    LET zone == ((range * 2 ^ LeadingZeros(range, WordBits)) % WordRange) - 1
        m    == NextWord(rng) * range
    IN  IF m % WordRange <= zone
        THEN [value |-> m \div WordRange, rng |-> Advance(rng)]
        ELSE SampleBelow(Advance(rng), range)

\* a slip: gen_range(0..=high) for gen_range(0..high)
GenRangeU32Inclusive(rng, high) ==
    [value |-> SampleBelow(rng, high + 1).value,
     rng |-> SampleBelow(rng, high + 1).rng, panic |-> FALSE]

\* rng.gen_range(0..high) for u32: panics on an empty range
GenRangeU32(rng, high) ==
    IF high = 0
    THEN [value |-> 0, rng |-> rng, panic |-> TRUE]
    ELSE [value |-> SampleBelow(rng, high).value,
          rng |-> SampleBelow(rng, high).rng, panic |-> FALSE]

\* hsv_to_rgb(i / phase_count, 0.7, 0.9)
hsv_to_rgb(i, phase_count) ==
    LET v  == 900
        sv == 630
        sector == (6 * i) \div phase_count
        fnum   == (6 * i) % phase_count
        p == 270
        q == v - (sv * fnum) \div phase_count
        t == v - (sv * (phase_count - fnum)) \div phase_count
        k == sector % 6
    IN  IF k = 0 THEN <<v, t, p>>
        ELSE IF k = 1 THEN <<q, v, p>>
        ELSE IF k = 2 THEN <<p, v, t>>
        ELSE IF k = 3 THEN <<p, q, v>>
        ELSE IF k = 4 THEN <<t, p, v>>
        ELSE <<v, p, q>>

\* the ranges of the nine draws of a phase, in the order they are made
PhaseDraws ==
    <<[field |-> "density",        lo |-> 20,  hi |-> 80],
      [field |-> "scattering.x",   lo |-> 100, hi |-> 1000],
      [field |-> "scattering.y",   lo |-> 100, hi |-> 1000],
      [field |-> "scattering.z",   lo |-> 100, hi |-> 1000],
      [field |-> "mean_free_path", lo |-> 500, hi |-> 2000],
      [field |-> "frequency",      lo |-> 500, hi |-> 5000],
      [field |-> "amplitude",      lo |-> 10,  hi |-> 100],
      [field |-> "damping",        lo |-> 100, hi |-> 500],
      [field |-> "coupling",       lo |-> 100, hi |-> 1000]>>

\* the ranges of the three position draws of a cell
CellDraws ==
    <<[field |-> "position.x", lo |-> -10000, hi |-> 10000],
      [field |-> "position.y", lo |-> -10000, hi |-> 10000],
      [field |-> "position.z", lo |-> -10000, hi |-> 10000]>>

\* the f32 draws `ranges`, made one after the other from rng
RECURSIVE DrawAll(_, _)
DrawAll(rng, ranges) ==
    IF ranges = <<>>
    THEN [values |-> <<>>, rng |-> rng]
    ELSE LET d    == GenRangeF32(rng, Head(ranges).lo, Head(ranges).hi)
             rest == DrawAll(d.rng, Tail(ranges))
         IN  [values |-> <<d.value>> \o rest.values, rng |-> rest.rng]

\* the log entries of the draws `ranges` made for item (kind, i)
DrawLog(kind, i, ranges) ==
    [j \in 1..Len(ranges) |-> <<kind, i, ranges[j].field>>]

\* the closure of the phases' map: phase i, drawn from rng
GenPhase(rng, i, phase_count) ==
    LET d   == DrawAll(rng, PhaseDraws)
        rgb == hsv_to_rgb(i, phase_count)
    IN  [phase |->
            [color_density   |-> <<rgb[1], rgb[2], rgb[3], d.values[1]>>,
             scattering      |-> <<d.values[2], d.values[3], d.values[4], d.values[5]>>,
             membrane_params |-> <<d.values[6], d.values[7], d.values[8], d.values[9]>>,
             phase_id        |-> i,
             _pad            |-> <<0, 0, 0>>],
         rng |-> d.rng]

\* the closure of the cells' map: one cell, drawn from rng
GenCell(rng, phase_count) ==
    LET d   == DrawAll(rng, CellDraws)
        idx == GenRangeU32(d.rng, phase_count)
    IN  [cell |-> [position |-> <<d.values[1], d.values[2], d.values[3]>>,
                   phase_index |-> idx.value],
         rng |-> idx.rng, panic |-> idx.panic]

\* (0..phase_count).map(..).collect(), from phase i on
RECURSIVE GenPhases(_, _, _)
GenPhases(rng, i, phase_count) ==
    IF i >= phase_count
    THEN [phases |-> <<>>, rng |-> rng, draws |-> <<>>]
    ELSE LET p    == GenPhase(rng, i, phase_count)
             rest == GenPhases(p.rng, i + 1, phase_count)
         IN  [phases |-> <<p.phase>> \o rest.phases, rng |-> rest.rng,
              draws |-> DrawLog("phase", i, PhaseDraws) \o rest.draws]

\* (0..cell_count).map(..).collect(), from cell i on
RECURSIVE GenCells(_, _, _, _)
GenCells(rng, i, cell_count, phase_count) ==
    IF i >= cell_count
    THEN [cells |-> <<>>, draws |-> <<>>, panic |-> FALSE]
    ELSE LET c == GenCell(rng, phase_count)
             log == DrawLog("cell", i, CellDraws) \o <<<<"cell", i, "phase_index">>>>
         IN  IF c.panic
             THEN [cells |-> <<>>, draws |-> log, panic |-> TRUE]
             ELSE LET rest == GenCells(c.rng, i + 1, cell_count, phase_count)
                  IN  [cells |-> <<c.cell>> \o rest.cells,
                       draws |-> log \o rest.draws, panic |-> rest.panic]

\* a slip: the cells are drawn from a generator seeded anew, not from the
\* one the phases left
GenerateReseedsForCells(seed, cell_count, phase_count) ==
    LET ps == GenPhases(SeedFromU64(seed), 0, phase_count)
        cs == GenCells(SeedFromU64(seed), 0, cell_count, phase_count)
    IN  IF cs.panic
        THEN [pc |-> "panicked", phases |-> <<>>, cells |-> <<>>,
              draws |-> ps.draws \o cs.draws]
        ELSE [pc |-> "done", phases |-> ps.phases, cells |-> cs.cells,
              draws |-> ps.draws \o cs.draws]

\* HoneycombWorld::generate: the world returned (none when it panics) and
\* the draws made, in order
Generate(seed, cell_count, phase_count) ==
    LET ps == GenPhases(SeedFromU64(seed), 0, phase_count)
        cs == GenCells(ps.rng, 0, cell_count, phase_count)
    IN  IF cs.panic
        THEN [pc |-> "panicked", phases |-> <<>>, cells |-> <<>>,
              draws |-> ps.draws \o cs.draws]
        ELSE [pc |-> "done", phases |-> ps.phases, cells |-> cs.cells,
              draws |-> ps.draws \o cs.draws]

\* one invocation of generate, before it is made
IdleRun ==
    [pc |-> "idle", at |-> 0, seed |-> 0, cell_count |-> 0, phase_count |-> 0,
     phases |-> <<>>, cells |-> <<>>, draws |-> <<>>]

Runs == {1, 2}

\* invocation k of generate, with arguments drawn by the caller; `at` notes
\* when it was made
Invoke(k, seed, cell_count, phase_count) ==
    /\ runs[k].pc = "idle"
    /\ \E w \in {Generate(seed, cell_count, phase_count)} :
           runs' = [runs EXCEPT ![k] =
                       [pc |-> w.pc, at |-> wall_clock, seed |-> seed,
                        cell_count |-> cell_count,
                        phase_count |-> phase_count, phases |-> w.phases,
                        cells |-> w.cells, draws |-> w.draws]]
    /\ UNCHANGED <<appVars, wall_clock, gridVars>>

\* time passes
Tick ==
    /\ wall_clock < MaxClock
    /\ wall_clock' = wall_clock + 1
    /\ UNCHANGED <<appVars, runs, gridVars>>

(***************************************************************************)
(* world.rs: SpatialGrid::build.  Positions are f32 in thousandths, and    *)
(* the division that finds a seed's voxel is exact; grid_size is below     *)
(* 2^15, so that `grid_size as i32` is exact.  The grid is kept sparse: a  *)
(* voxel no seed was registered in is the GridCell the vector was filled   *)
(* with.                                                                   *)
(***************************************************************************)
\* the seeds given to build are at most this many
MaxSeeds == 9
\* ... in at most this many runs of equal positions
MaxBatches == 2
\* the length of GridCell.cell_indices
GridCapacity == 8

\* a < b for two u32
U32Less(a, b) == a[1] < b[1] \/ (a[1] = b[1] /\ a[2] < b[2])

\* a * k in u32, for a natural k < 2^15: the wrapped product, and whether
\* it overflowed
U32Mul(a, k) ==
    LET lo == a[2] * k
        hi == a[1] * k + (lo \div Half)
    IN  [value |-> <<hi % Half, lo % Half>>, overflow |-> hi >= Half]

\* a + b in u32: the wrapped sum, and whether it overflowed
U32Add(a, b) ==
    LET lo == a[2] + b[2]
        hi == a[1] + b[1] + (lo \div Half)
    IN  [value |-> <<hi % Half, lo % Half>>, overflow |-> hi >= Half]

\* (grid_size * grid_size * grid_size) as usize
TotalCells(grid_size) ==
    LET sq == U32Mul(U32(grid_size), grid_size)
        cu == U32Mul(sq.value, grid_size)
    IN  [value |-> cu.value, overflow |-> sq.overflow \/ cu.overflow]

\* (nz as u32 * grid_size * grid_size + ny as u32 * grid_size + nx as u32)
GridIndex(nx, ny, nz, grid_size) ==
    LET zg  == U32Mul(U32(nz), grid_size)
        zgg == U32Mul(zg.value, grid_size)
        yg  == U32Mul(U32(ny), grid_size)
        s1  == U32Add(zgg.value, yg.value)
        s2  == U32Add(s1.value, U32(nx))
    IN  [value |-> s2.value,
         overflow |-> zg.overflow \/ zgg.overflow \/ yg.overflow
                          \/ s1.overflow \/ s2.overflow]

I32Max == 2147483647

\* ((pos - volume_min) / cell_size).floor() as i32 on one axis, where
\* cell_size = (volume_max - volume_min) / grid_size and grid_size >= 1:
\* the cast saturates an infinite quotient and turns NaN into 0
GridPos(pos, lo, hi, grid_size) ==
    LET extent == hi - lo
        d      == pos - lo
    IN  IF extent > 0 THEN (d * grid_size) \div extent
        ELSE IF extent < 0 THEN ((0 - d) * grid_size) \div (0 - extent)
        ELSE IF d > 0 THEN I32Max
        ELSE IF d < 0 THEN (0 - I32Max) - 1
        ELSE 0

\* i32::clamp(x, lo, hi), which panics when lo > hi
Clamp(x, lo, hi) == IF x < lo THEN lo ELSE IF x > hi THEN hi ELSE x

\* (gx, gy, gz): the voxel containing a seed
ContainingVoxel(pos, volume_min, volume_max, grid_size) ==
    [a \in 1..3 |->
        Clamp(GridPos(pos[a], volume_min[a], volume_max[a], grid_size),
              0, grid_size - 1)]

\* the GridCell the vector is filled with
EmptyGridCell ==
    [cell_indices |-> [i \in 1..GridCapacity |-> -1], count |-> 0,
     _pad |-> <<0, 0, 0>>]

\* grid_cells[idx]
GridCellAt(cells, idx) ==
    IF idx \in DOMAIN cells THEN cells[idx] ELSE EmptyGridCell

\* (dx, dy, dz) of the n-th pass through the three nested loops, dz outermost
Offset(n) ==
    <<((n - 1) % 3) - 1, (((n - 1) \div 3) % 3) - 1, ((n - 1) \div 9) - 1>>

\* the innermost block: the seed is stored in grid_cells[idx] unless that
\* cell is full; an idx beyond the vector panics
Register(st, idx, voronoi_idx, len) ==
    IF ~U32Less(idx, len)
    THEN [st EXCEPT !.panic = "index out of bounds"]
    ELSE LET grid_cell == GridCellAt(st.cells, idx)
         IN  IF grid_cell.count < GridCapacity
             THEN [st EXCEPT !.cells =
                      (idx :> [grid_cell EXCEPT
                                  !.cell_indices[grid_cell.count + 1] = voronoi_idx,
                                  !.count = grid_cell.count + 1]) @@ st.cells]
             ELSE st

\* the three nested loops over the neighbourhood of voxel g, from pass n on;
\* oc says whether the build panics on integer overflow
RECURSIVE AddToNeighbourhood(_, _, _, _, _, _, _)
AddToNeighbourhood(st, n, voronoi_idx, g, grid_size, len, oc) ==
    IF n > 27 \/ st.panic # "none"
    THEN st
    ELSE LET nx  == g[1] + Offset(n)[1]
             ny  == g[2] + Offset(n)[2]
             nz  == g[3] + Offset(n)[3]
             idx == GridIndex(nx, ny, nz, grid_size)
             st1 == IF ~(/\ nx >= 0 /\ nx < grid_size
                         /\ ny >= 0 /\ ny < grid_size
                         /\ nz >= 0 /\ nz < grid_size)
                    THEN st
                    ELSE IF oc /\ idx.overflow
                    THEN [st EXCEPT !.panic = "attempt to multiply with overflow"]
                    ELSE Register(st, idx.value, voronoi_idx, len)
         IN  AddToNeighbourhood(st1, n + 1, voronoi_idx, g, grid_size, len, oc)

\* the loop over the seeds, from seed i (counted from 1) on
RECURSIVE BuildLoop(_, _, _, _, _, _, _, _)
BuildLoop(st, i, voronoi_cells, volume_min, volume_max, grid_size, len, oc) ==
    IF i > Len(voronoi_cells) \/ st.panic # "none"
    THEN st
    ELSE IF 0 > grid_size - 1
    THEN [st EXCEPT !.panic = "assertion failed: min <= max"]
    ELSE LET g == ContainingVoxel(voronoi_cells[i].position, volume_min,
                                  volume_max, grid_size)
             st1 == AddToNeighbourhood(st, 1, i - 1, g, grid_size, len, oc)
         IN  BuildLoop(st1, i + 1, voronoi_cells, volume_min, volume_max,
                       grid_size, len, oc)

\* SpatialGrid::build: whether it returned, the length of the vector of
\* GridCells and the cells a seed was registered in
SpatialGridBuild(voronoi_cells, volume_min, volume_max, grid_size, oc) ==
    LET total == TotalCells(grid_size)
        st    == BuildLoop([cells |-> <<>>, panic |-> "none"], 1, voronoi_cells,
                           volume_min, volume_max, grid_size, total.value, oc)
    IN  IF oc /\ total.overflow
        THEN [pc |-> "panicked", panic |-> "attempt to multiply with overflow",
              len |-> U32(0), cells |-> <<>>]
        ELSE IF st.panic # "none"
        THEN [pc |-> "panicked", panic |-> st.panic, len |-> U32(0), cells |-> <<>>]
        ELSE [pc |-> "built", panic |-> "none", len |-> total.value,
              cells |-> st.cells]

\* grid sizes given to build; 1626 is the least whose cube is beyond u32
GridSizes == {0, 1, 3, 1626}

\* seed positions: the box's min corner, its centre, a point outside the box
\* that is on the plane of its max face in y, and for the largest grid two
\* points near the top and the bottom of the box
SeedPositions(grid_size) ==
    IF grid_size = 1626
    THEN {<<0, 0, 0>>, <<-20000, 5000, 13000>>, <<4775, -6945, -11995>>}
    ELSE {<<-12000, -12000, -12000>>, <<0, 0, 0>>, <<-20000, 12000, 13000>>}

\* the runs of equal adjacent elements of a sequence
RunsOf(seq) ==
    IF seq = <<>> THEN 0
    ELSE 1 + Cardinality({i \in 1..(Len(seq) - 1) : seq[i] # seq[i + 1]})

\* an invocation of build whose arguments are being put together
GridInput(grid_size, volume_min, volume_max) ==
    [pc |-> "input", voronoi_cells |-> <<>>, volume_min |-> volume_min,
     volume_max |-> volume_max, grid_size |-> grid_size, panic |-> "none",
     len |-> U32(0), cells |-> <<>>]

\* the caller adds a seed at pos to the slice it will pass
AddSeed(pos) ==
    /\ grid.pc = "input"
    /\ Len(grid.voronoi_cells) < MaxSeeds
    /\ LET cell == [position |-> pos, phase_index |-> 0]
       IN  /\ RunsOf(Append(grid.voronoi_cells, cell)) <= MaxBatches
           /\ grid' = [grid EXCEPT !.voronoi_cells = Append(@, cell)]
    /\ UNCHANGED <<appVars, genVars>>

\* the caller invokes SpatialGrid::build
Build ==
    /\ grid.pc = "input"
    /\ \E b \in {SpatialGridBuild(grid.voronoi_cells, grid.volume_min,
                                  grid.volume_max, grid.grid_size, overflow_checks)} :
           grid' = [grid EXCEPT !.pc = b.pc, !.panic = b.panic, !.len = b.len,
                                !.cells = b.cells]
    /\ UNCHANGED <<appVars, genVars>>

Init ==
    /\ target \in Targets
    /\ overflow_checks \in BOOLEAN
    /\ phase = "Uninitialized"
    /\ init_task = "none"
    /\ pending = <<>>
    /\ gpu = NoGpu
    /\ time = 0
    /\ keys_held = {}
    /\ exit_requested = FALSE
    /\ crashed = FALSE
    /\ next_texture_id = 0
    /\ last = LastOf("none", FALSE, NoSize, NoSize, NoCalls)
    /\ runs = <<IdleRun, IdleRun>>
    /\ wall_clock = 0
    /\ grid = GridInput(1, VOLUME_MIN, VOLUME_MAX)

Next ==
    \/ Resumed
    \/ InitTaskCompletes
    \/ CloseRequested
    \/ \E new_size \in SizeInputs :
           \E web_inner \in WebInnerInputs(target, new_size) :
               Resized(new_size, web_inner)
    \/ \E code \in Keys, state \in ElementStates : KeyboardInput(code, state)
    \/ RedrawInputs

Spec == Init /\ [][Next]_vars

InitGen ==
    /\ Init
    /\ target = "native"
    /\ overflow_checks = FALSE

NextGen ==
    \/ \E k \in Runs, seed \in 0..MaxSeed, cell_count \in 0..MaxCells,
          phase_count \in 0..MaxPhases :
           Invoke(k, seed, cell_count, phase_count)
    \/ Tick

SpecGen == InitGen /\ [][NextGen]_vars

InitGrid ==
    /\ target = "native"
    /\ phase = "Uninitialized"
    /\ init_task = "none"
    /\ pending = <<>>
    /\ gpu = NoGpu
    /\ time = 0
    /\ keys_held = {}
    /\ exit_requested = FALSE
    /\ crashed = FALSE
    /\ next_texture_id = 0
    /\ last = LastOf("none", FALSE, NoSize, NoSize, NoCalls)
    /\ runs = <<IdleRun, IdleRun>>
    /\ wall_clock = 0
    /\ grid \in {GridInput(grid_size, VOLUME_MIN, VOLUME_MAX) : grid_size \in GridSizes}
    /\ overflow_checks \in (IF TotalCells(grid.grid_size).overflow THEN BOOLEAN
                                                                  ELSE {FALSE})

NextGrid ==
    \/ \E pos \in SeedPositions(grid.grid_size) : AddSeed(pos)
    \/ Build

SpecGrid == InitGrid /\ [][NextGrid]_vars

(***************************************************************************)
(* Properties of the application (Spec).                                   *)
(***************************************************************************)
Contains(seq, x) == \E i \in 1..Len(seq) : seq[i] = x

ZeroDim(sz) == sz.width = U32(0) \/ sz.height = U32(0)

BelowHundred(sz) == U32Lt(sz.width, 100) \/ U32Lt(sz.height, 100)

\* the step is a Resized event handled by a Running application
ResizedStep == last'.event = "Resized" /\ last'.handled

\* the step is a RedrawRequested event handled by a Running application,
\* so that GpuState::render was called
RedrawStep == last'.event = "RedrawRequested" /\ last'.handled

\* the calls of render that make up the frame's GPU work
FrameWork == {"dispatch_workgroups", "begin_render_pass", "draw(0..3)", "queue.submit", "present"}

\* the step's handler issued none of the frame's GPU work
FrameSkipped ==
    /\ last'.dispatch = <<>>
    /\ \A c \in FrameWork : ~Contains(last'.calls, c)

\* the step left the size-dependent resources and the surface as they were
SizeDependentUnchanged ==
    /\ gpu'.size = GpuNow.size
    /\ gpu'.config = GpuNow.config
    /\ gpu'.surface = GpuNow.surface
    /\ gpu'.storage_texture = GpuNow.storage_texture
    /\ gpu'.storage_texture_view = GpuNow.storage_texture_view
    /\ gpu'.compute_bind_group_1 = GpuNow.compute_bind_group_1
    /\ gpu'.render_bind_group = GpuNow.render_bind_group
    /\ next_texture_id' = next_texture_id
    /\ ~Contains(last'.calls, "surface.configure")
    /\ ~Contains(last'.calls, "device.create_texture")
    /\ ~Contains(last'.calls, "device.create_bind_group")

\* the step reconfigured the surface to d and rebuilt the image and both
\* image bind groups for it, from the layouts and the sampler it had
ResizedTo(d) ==
    /\ Contains(last'.calls, "surface.configure")
    /\ gpu'.surface = [width |-> d.width, height |-> d.height]
    /\ gpu'.config.width = d.width /\ gpu'.config.height = d.height
    /\ gpu'.size = PhysicalSize(d.width, d.height)
    /\ gpu'.storage_texture.width = d.width
    /\ gpu'.storage_texture.height = d.height
    /\ gpu'.storage_texture.id > next_texture_id
    /\ gpu'.storage_texture_view = gpu'.storage_texture.id
    /\ gpu'.compute_bind_group_1 =
           ComputeBindGroup1(GpuNow.compute_bind_group_layout_1, gpu'.storage_texture.id)
    /\ gpu'.render_bind_group =
           RenderBindGroup(GpuNow.render_bind_group_layout, gpu'.storage_texture.id,
                           GpuNow.sampler)
    /\ gpu'.compute_bind_group_layout_1 = GpuNow.compute_bind_group_layout_1
    /\ gpu'.render_bind_group_layout = GpuNow.render_bind_group_layout
    /\ gpu'.sampler = GpuNow.sampler

\* the dimensions resize works with: those requested, except that a wasm32
\* build given a width or height below 100 takes the browser window's inner
\* size (recorded in `last` by the handler that asked for it)
EffectiveDims(requested, web_inner) ==
    IF target = "wasm32" /\ BelowHundred(requested) THEN web_inner ELSE requested

\* C1: whenever a render call can start, the compute-write and display-read
\* bind groups reference the current intermediate image, which is the newest
\* texture created, and the image's dimensions equal the surface
\* configuration's and the recorded size; a frame that ran was bound to it.
C1_BindGroupsCurrent ==
    PhaseNow = "Running" =>
        /\ GpuNow.storage_texture.id = next_texture_id
        /\ GpuNow.storage_texture_view = GpuNow.storage_texture.id
        /\ GpuNow.compute_bind_group_1.texture_view = GpuNow.storage_texture.id
        /\ GpuNow.render_bind_group.texture_view = GpuNow.storage_texture.id
        /\ GpuNow.storage_texture.width = GpuNow.config.width
        /\ GpuNow.storage_texture.height = GpuNow.config.height
        /\ GpuNow.storage_texture.width = GpuNow.size.width
        /\ GpuNow.storage_texture.height = GpuNow.size.height
        /\ GpuNow.surface.width = GpuNow.config.width
        /\ GpuNow.surface.height = GpuNow.config.height
        /\ (last.event = "RedrawRequested" /\ last.result = "Ok" =>
                /\ last.compute_target = GpuNow.storage_texture.id
                /\ last.sampled = GpuNow.storage_texture.id)

\* C1 witness: a frame rendered after the image has been replaced twice
C1_Witness ==
    /\ phase = "Running"
    /\ last.event = "RedrawRequested" /\ last.result = "Ok"
    /\ gpu.storage_texture.id = 3

\* C2 as stated: a Resized event with a zero width or height leaves the
\* recorded size, the surface and its configuration, the image and both
\* image bind groups unchanged.
C2_ZeroRequestIsNoOp ==
    [][ResizedStep /\ ZeroDim(last'.size) => SizeDependentUnchanged]_vars

\* C2 amended: resize is a no-op when the dimensions it works with have a
\* zero: the requested ones, or on wasm32 with a requested dimension below
\* 100 the browser window's inner size.
C2_ZeroEffectiveIsNoOp ==
    [][ResizedStep /\ ZeroDim(EffectiveDims(last'.size, last'.web_inner))
          => SizeDependentUnchanged]_vars

\* C2 witness: a resize whose dimensions have a zero reached a GpuState that
\* had been resized before
C2_Witness ==
    /\ last.event = "Resized" /\ last.handled
    /\ ZeroDim(EffectiveDims(last.size, last.web_inner))
    /\ gpu.storage_texture.id = 2

\* C3 as stated: resize(w, h) with w > 0 and h > 0 reconfigures the surface
\* to w x h and rebuilds the image and both bind groups at w x h.
C3_ResizesToRequested ==
    [][ResizedStep /\ ~ZeroDim(last'.size) => ResizedTo(last'.size)]_vars

\* C3 amended: resize reconfigures the surface to, and rebuilds the image
\* and both bind groups at, the dimensions it works with when both are
\* positive: the requested ones, or on wasm32 with a requested dimension
\* below 100 the browser window's inner size.
C3_ResizesToEffective ==
    [][ResizedStep /\ ~ZeroDim(EffectiveDims(last'.size, last'.web_inner))
          => ResizedTo(EffectiveDims(last'.size, last'.web_inner))]_vars

\* C3 witness: a second effective resize, to dimensions other than before
C3_Witness ==
    /\ last.event = "Resized" /\ last.handled
    /\ ~ZeroDim(EffectiveDims(last.size, last.web_inner))
    /\ gpu.storage_texture.id = 3
    /\ gpu.size = PhysicalSize(U32(1281), U32(721))

\* ceil(a / 8) for a u32 a, computed without overflow
CeilDiv8(a) == a[1] * (Half \div 8) + ((a[2] + 7) \div 8)

\* C4: every render call that acquires the surface image dispatches exactly
\* ceil(width / 8) x ceil(height / 8) x 1 workgroups, for every u32 width
\* and height >= 1.
C4_DispatchIsCeiling ==
    last.event = "RedrawRequested" /\ last.handled /\ last.result \in {"Ok", "panic"} =>
        last.dispatch = <<CeilDiv8(gpu.size.width), CeilDiv8(gpu.size.height), 1>>

\* C5 as stated: on a lost surface the frame is skipped, the surface is
\* reconfigured at its current dimensions and the application keeps running.
C5_LostReconfiguresAtCurrent ==
    [][RedrawStep /\ last'.result = "Lost" =>
          /\ FrameSkipped
          /\ ResizedTo(GpuNow.size)
          /\ ~exit_requested' /\ ~crashed' /\ phase' = "Running"]_vars

\* C5 amended: on a lost surface the frame is skipped, the handler calls
\* resize with the recorded size and the application keeps running; that
\* resize reconfigures the surface at its current dimensions, except on
\* wasm32 with a recorded dimension below 100, where it works with the
\* browser window's inner size (and does nothing when that has a zero).
C5_LostRecovers ==
    [][RedrawStep /\ last'.result = "Lost" =>
          /\ FrameSkipped
          /\ IF ZeroDim(EffectiveDims(GpuNow.size, last'.web_inner))
             THEN SizeDependentUnchanged
             ELSE ResizedTo(EffectiveDims(GpuNow.size, last'.web_inner))
          /\ target = "native" \/ ~BelowHundred(GpuNow.size) => gpu'.size = GpuNow.size
          /\ ~exit_requested' /\ ~crashed' /\ phase' = "Running"]_vars

\* C5 witness: a lost surface, recovered by a resize that reconfigured it,
\* in an application that goes on receiving events
C5_Witness ==
    /\ last.event = "RedrawRequested" /\ last.handled
    /\ last.result = "Lost"
    /\ Contains(last.calls, "surface.configure")
    /\ gpu.storage_texture.id = 2
    /\ phase = "Running" /\ Alive

\* C6: a render call that returns 'out of memory' makes the handler call
\* event_loop.exit() and change no size-dependent resource, and no other
\* result returned by render ends the event loop.
C6_OnlyOutOfMemoryExits ==
    [][RedrawStep =>
          /\ last'.result = "OutOfMemory" =>
                 exit_requested' /\ SizeDependentUnchanged /\ FrameSkipped
          /\ exit_requested' => last'.result = "OutOfMemory"]_vars

\* C6 witness: the event loop was ended by an out-of-memory frame
C6_Witness ==
    /\ last.event = "RedrawRequested" /\ last.result = "OutOfMemory"
    /\ exit_requested
    /\ gpu.storage_texture.id = 2

\* C7: when acquisition fails with an error other than 'surface lost' and
\* 'out of memory', the frame is skipped, the application continues, and the
\* surface configuration, recorded size, image and all bind groups are as
\* before.
C7_TransientErrorSkipsFrame ==
    [][RedrawStep /\ last'.result \in SurfaceErrors \ {"Lost", "OutOfMemory"} =>
          /\ FrameSkipped
          /\ SizeDependentUnchanged
          /\ gpu'.compute_bind_group_0 = GpuNow.compute_bind_group_0
          /\ ~exit_requested' /\ ~crashed' /\ phase' = "Running"]_vars

\* C7 witness: a frame skipped on an outdated surface
C7_Witness ==
    /\ last.event = "RedrawRequested" /\ last.handled
    /\ last.result = "Outdated"
    /\ gpu.storage_texture.id = 2

\* the step's render call wrote both uniform buffers, first of all
UniformsWritten ==
    /\ Len(last'.calls) >= 2
    /\ last'.calls[1] = "queue.write_buffer(frame_uniform_buffer)"
    /\ last'.calls[2] = "queue.write_buffer(raymarch_params_buffer)"
    /\ gpu'.frame_uniform_buffer.time = time'
    /\ gpu'.frame_uniform_buffer.resolution =
           <<AsF32(GpuNow.size.width), AsF32(GpuNow.size.height)>>
    /\ \E rp \in ReadJsParams(target) :
           gpu'.raymarch_params_buffer = RaymarchParamsOf(rp)

\* C8 as stated: a render call whose acquisition fails has none of the
\* frame's effects, the writes to the two uniform buffers included.
C8_FailedFrameWritesNothing ==
    [][RedrawStep /\ last'.result \in SurfaceErrors =>
          /\ FrameSkipped
          /\ gpu'.frame_uniform_buffer = GpuNow.frame_uniform_buffer
          /\ gpu'.raymarch_params_buffer = GpuNow.raymarch_params_buffer
          /\ ~Contains(last'.calls, "queue.write_buffer(frame_uniform_buffer)")
          /\ ~Contains(last'.calls, "queue.write_buffer(raymarch_params_buffer)")]_vars

\* C8 amended: every render call first writes both uniform buffers; of the
\* frame's GPU work (dispatch, display pass, submit, present) it then issues
\* either all, and returns Ok, or none; when acquisition fails it is none.
C8_FrameWorkAllOrNothing ==
    [][RedrawStep =>
          /\ UniformsWritten
          /\ \/ last'.result = "Ok" /\ \A c \in FrameWork : Contains(last'.calls, c)
             \/ last'.result # "Ok" /\ FrameSkipped
          /\ last'.result \in SurfaceErrors => FrameSkipped]_vars

\* C8 witness: a failed frame that changed the Frame Uniforms buffer
C8_Witness ==
    /\ last.event = "RedrawRequested" /\ last.handled
    /\ last.result \in SurfaceErrors
    /\ gpu.frame_uniform_buffer.time = 1
    /\ gpu.storage_texture.id = 1

(***************************************************************************)
(* Properties of the generator (SpecGen).                                  *)
(***************************************************************************)
SameArguments(a, b) ==
    /\ a.seed = b.seed
    /\ a.cell_count = b.cell_count
    /\ a.phase_count = b.phase_count

C10_PhaseIndexValid ==
    \A k \in Runs :
        runs[k].pc = "done" /\ runs[k].phase_count >= 1 =>
            \A i \in 1..Len(runs[k].cells) :
                /\ runs[k].cells[i].phase_index >= 0
                /\ runs[k].cells[i].phase_index < runs[k].phase_count
                /\ runs[k].cells[i].phase_index + 1 \in DOMAIN runs[k].phases

\* C10 witness: a returned world whose cells use the last phase and another
C10_Witness ==
    \E k \in Runs :
        /\ runs[k].pc = "done" /\ runs[k].phase_count = 2
        /\ Len(runs[k].cells) = 2
        /\ runs[k].cells[1].phase_index # runs[k].cells[2].phase_index

\* C11: every invocation of generate returns a world with exactly
\* phase_count phases and exactly cell_count cells, and the phase at
\* position i (from 0) has phase_id = i.
C11_CountsAndIds ==
    \A k \in Runs :
        runs[k].pc # "idle" =>
            /\ runs[k].pc = "done"
            /\ Len(runs[k].phases) = runs[k].phase_count
            /\ Len(runs[k].cells) = runs[k].cell_count
            /\ \A i \in 1..Len(runs[k].phases) :
                   runs[k].phases[i].phase_id = i - 1

\* C12: no invocation of generate panics, whatever its arguments, and a
\* zero count gives the empty sequence.
C12_NeverPanics ==
    \A k \in Runs :
        runs[k].pc # "idle" =>
            /\ runs[k].pc = "done"
            /\ runs[k].phase_count = 0 => runs[k].phases = <<>>
            /\ runs[k].cell_count = 0 => runs[k].cells = <<>>

(***************************************************************************)
(* Properties of the application (Spec): resize and render.                *)
(***************************************************************************)
\* C14 as stated: a resize with the recorded (non-zero) size leaves the
\* recorded size and the surface configuration's width and height as they
\* were, and replaces the image and both image bind groups by new ones.
C14_SameSizeResizeKeepsDims ==
    [][ResizedStep /\ last'.same_size =>
          /\ gpu'.size = GpuNow.size
          /\ gpu'.config.width = GpuNow.config.width
          /\ gpu'.config.height = GpuNow.config.height
          /\ ResizedTo(GpuNow.size)
          /\ gpu'.storage_texture.id # GpuNow.storage_texture.id]_vars

\* C14 amended: a resize with the recorded size keeps the recorded size and
\* the configuration's width and height and replaces the image and both
\* image bind groups by new ones, except on wasm32 with a recorded width or
\* height below 100: there it works with the browser window's inner size,
\* doing nothing when that has a zero and resizing to it otherwise.
C14_SameSizeResizeRebuilds ==
    [][ResizedStep /\ last'.same_size =>
          IF target = "native" \/ ~BelowHundred(GpuNow.size)
          THEN /\ gpu'.size = GpuNow.size
               /\ gpu'.config.width = GpuNow.config.width
               /\ gpu'.config.height = GpuNow.config.height
               /\ ResizedTo(GpuNow.size)
               /\ gpu'.storage_texture.id # GpuNow.storage_texture.id
          ELSE IF ZeroDim(last'.web_inner)
          THEN SizeDependentUnchanged
          ELSE ResizedTo(last'.web_inner)]_vars

\* C14 witness: the image was replaced twice by resizes, the last of them
\* one with the recorded size
C14_Witness ==
    /\ last.event = "Resized" /\ last.handled /\ last.same_size
    /\ Contains(last.calls, "surface.configure")
    /\ gpu.size = last.size
    /\ gpu.storage_texture.id = 3

\* the members of GpuState that resize may change
SizeDependentFields ==
    {"size", "surface", "config", "storage_texture", "storage_texture_view",
     "compute_bind_group_1", "render_bind_group"}

\* the two per-frame uniform buffers
UniformBuffers == {"frame_uniform_buffer", "raymarch_params_buffer"}

\* g and h agree on every member outside `fields`, and on the surface format
AgreeOutside(g, h, fields) ==
    /\ \A f \in (DOMAIN g) \ fields : g[f] = h[f]
    /\ g.config.format = h.config.format

\* C15: resize changes only the recorded size, the surface and its
\* configuration's width and height, the image, its view and the two image
\* bind groups; the pipelines, the bind-group layouts, compute bind group 0,
\* the sampler, the two uniform buffers, the two storage buffers and the
\* surface format are as before (after a lost surface too, where render has
\* written the uniform buffers before resize is called).
C15_ResizeKeepsSizeIndependent ==
    [][/\ ResizedStep => AgreeOutside(gpu', GpuNow, SizeDependentFields)
       /\ RedrawStep /\ last'.result = "Lost" =>
              AgreeOutside(gpu', GpuNow, SizeDependentFields \cup UniformBuffers)]_vars

\* C15 witness: an effective resize of a GpuState whose uniform buffers a
\* frame had written
C15_Witness ==
    /\ last.event = "Resized" /\ last.handled
    /\ Contains(last.calls, "surface.configure")
    /\ gpu.storage_texture.id = 2
    /\ gpu.frame_uniform_buffer.time = 1

\* C16: a render call, successful or not, changes nothing of GpuState but
\* the contents of the two uniform buffers: configuration, recorded size,
\* image, bind groups, phase and cell buffers are as before (when the surface
\* is lost this is said of the GpuState render leaves to the handler's
\* resize); so a frame on an 800x600 surface leaves it configured at 800x600.
C16_RenderWritesOnlyUniforms ==
    [][RedrawStep =>
          /\ gpu'.config = GpuNow.config \/ last'.result = "Lost"
          /\ IF last'.result # "Lost"
             THEN AgreeOutside(gpu', GpuNow, UniformBuffers)
             ELSE \E rp \in ReadJsParams(target) :
                      LET r == Render(GpuNow, time', rp, "Lost", overflow_checks)
                      IN  /\ r.result = "Lost"
                          /\ AgreeOutside(r.gpu, GpuNow, UniformBuffers)
                          /\ r.gpu.config = GpuNow.config
                          /\ r.gpu.frame_uniform_buffer = gpu'.frame_uniform_buffer
                          /\ r.gpu.raymarch_params_buffer = gpu'.raymarch_params_buffer]_vars

\* C16 witness: a frame rendered on a surface of 800x600, which it left
\* configured at 800x600
C16_Witness ==
    /\ last.event = "RedrawRequested" /\ last.handled
    /\ last.result = "Ok"
    /\ gpu.frame_uniform_buffer.time = 1
    /\ gpu.config.width = U32(800) /\ gpu.config.height = U32(600)
    /\ gpu.size = PhysicalSize(U32(800), U32(600))

\* the host-visible calls of a frame, in the order of the claim
FrameCallOrder ==
    <<"queue.write_buffer(frame_uniform_buffer)",
      "queue.write_buffer(raymarch_params_buffer)",
      "surface.get_current_texture",
      "device.create_command_encoder",
      "begin_compute_pass", "dispatch_workgroups",
      "begin_render_pass", "draw(0..3)",
      "queue.submit", "present">>

\* C17: a render call that returns Ok made exactly the calls of the frame,
\* each once, in the fixed order; render returns an error only from the
\* surface acquisition, and then (as in a call that unwinds) it made a
\* prefix of that order that holds no dispatch, draw, submit or present.
C17_FixedCallOrder ==
    [][RedrawStep =>
          /\ last'.result \in {"Ok", "panic"} \cup SurfaceErrors
          /\ last'.result = "Ok" => last'.calls = FrameCallOrder
          /\ last'.result \in SurfaceErrors \ {"Lost"} =>
                 last'.calls = SubSeq(FrameCallOrder, 1, 3)
          /\ last'.result = "Lost" =>
                 /\ SubSeq(last'.calls, 1, 3) = SubSeq(FrameCallOrder, 1, 3)
                 /\ FrameSkipped
          /\ last'.result = "panic" =>
                 /\ \E n \in 3..Len(FrameCallOrder) :
                        last'.calls = SubSeq(FrameCallOrder, 1, n)
                 /\ FrameSkipped]_vars

\* C17 witness: a complete frame on a resized surface
C17_Witness ==
    /\ last.event = "RedrawRequested" /\ last.handled
    /\ last.result = "Ok"
    /\ Len(last.calls) = 10
    /\ gpu.storage_texture.id = 2

\* C18: every render call writes the recorded size, which is the surface's
\* and the image's, as the resolution of Frame Uniforms, and one that
\* acquires the surface image dispatches ceil(width / 8) x ceil(height / 8)
\* workgroups over it.
C18_FrameUsesCurrentDims ==
    [][RedrawStep =>
          /\ gpu'.frame_uniform_buffer.resolution =
                 <<AsF32(GpuNow.size.width), AsF32(GpuNow.size.height)>>
          /\ GpuNow.size.width = GpuNow.surface.width
          /\ GpuNow.size.height = GpuNow.surface.height
          /\ GpuNow.size.width = GpuNow.storage_texture.width
          /\ GpuNow.size.height = GpuNow.storage_texture.height
          /\ last'.result \in {"Ok", "panic"} =>
                 last'.dispatch = <<CeilDiv8(GpuNow.size.width),
                                    CeilDiv8(GpuNow.size.height), 1>>]_vars

(***************************************************************************)
(* Properties of the generator (SpecGen): the order of the draws.          *)
(***************************************************************************)
\* the draws of a phase and of a cell, in the order of the claim
PhaseFieldOrder ==
    <<"density", "scattering.x", "scattering.y", "scattering.z", "mean_free_path",
      "frequency", "amplitude", "damping", "coupling">>

CellFieldOrder == <<"position.x", "position.y", "position.z", "phase_index">>

\* all draws of generate(_, cell_count, phase_count) in the claimed order
ExpectedDraws(cell_count, phase_count) ==
    [n \in 1..(9 * phase_count + 4 * cell_count) |->
        IF n <= 9 * phase_count
        THEN <<"phase", (n - 1) \div 9, PhaseFieldOrder[((n - 1) % 9) + 1]>>
        ELSE LET m == n - 9 * phase_count - 1
             IN  <<"cell", m \div 4, CellFieldOrder[(m % 4) + 1]>>]

\* the value a draw from lo..hi takes at position pos of the stream of seed
ValueAt(seed, pos, lo, hi) == GenRangeF32([key |-> seed, pos |-> pos], lo, hi).value

\* the nine drawn members of a phase, in the order of PhaseFieldOrder
DrawnOf(ph) ==
    <<ph.color_density[4], ph.scattering[1], ph.scattering[2], ph.scattering[3],
      ph.scattering[4], ph.membrane_params[1], ph.membrane_params[2],
      ph.membrane_params[3], ph.membrane_params[4]>>

\* C19: generate draws from the seeded stream in a fixed order: the nine
\* draws of phase 0, then of phase 1, ..., then for each cell in index order
\* x, y, z and phase_index; so phase i holds the stream's words 9i .. 9i+8,
\* the first cell's position the three words after the last phase's, and an
\* invocation that panics has made a prefix of that order.
C19_DrawOrder ==
    \A k \in Runs :
        LET run == runs[k]
            expected == ExpectedDraws(run.cell_count, run.phase_count)
        IN  /\ run.pc = "done" =>
                /\ run.draws = expected
                /\ \A i \in 1..Len(run.phases), j \in 1..9 :
                       DrawnOf(run.phases[i])[j] =
                           ValueAt(run.seed, 9 * (i - 1) + (j - 1),
                                   PhaseDraws[j].lo, PhaseDraws[j].hi)
                /\ run.cells # <<>> =>
                       \A j \in 1..3 :
                           run.cells[1].position[j] =
                               ValueAt(run.seed, 9 * run.phase_count + (j - 1),
                                       -10000, 10000)
            /\ run.pc = "panicked" =>
                /\ Len(run.draws) <= Len(expected)
                /\ run.draws = SubSeq(expected, 1, Len(run.draws))

\* C19 witness: a world of two phases and two cells, whose first cell was
\* not drawn from the start of the stream
C19_Witness ==
    \E k \in Runs :
        /\ runs[k].pc = "done"
        /\ Len(runs[k].phases) = 2 /\ Len(runs[k].cells) = 2
        /\ Len(runs[k].draws) = 26
        /\ runs[k].cells[1].position[1] # ValueAt(runs[k].seed, 0, -10000, 10000)

(***************************************************************************)
(* Properties of SpatialGrid::build (SpecGrid).                            *)
(***************************************************************************)
\* the voxel containing seed i (counted from 1) of the invocation
SeedVoxel(i) ==
    ContainingVoxel(grid.voronoi_cells[i].position, grid.volume_min,
                    grid.volume_max, grid.grid_size)

\* each coordinate of v differs by at most 1 from that of w
Near(v, w) == \A a \in 1..3 : v[a] - w[a] \in {-1, 0, 1}

InsideGrid(v) == \A a \in 1..3 : v[a] >= 0 /\ v[a] < grid.grid_size

\* the voxels of the grid in the neighbourhood of some seed's voxel
NearVoxels ==
    {v \in UNION {{[a \in 1..3 |-> SeedVoxel(i)[a] + d[a]] :
                       d \in [1..3 -> {-1, 0, 1}]} :
                  i \in 1..Len(grid.voronoi_cells)} : InsideGrid(v)}

\* the seeds (counted from 1) whose voxel has v in its neighbourhood
NearSeeds(v) == {i \in 1..Len(grid.voronoi_cells) : Near(SeedVoxel(i), v)}

\* the k-th lowest element of a set of naturals
Lowest(S, k) == CHOOSE i \in S : Cardinality({j \in S : j < i}) = k - 1

\* the GridCell that holds the n lowest-index seeds of S, in index order
CellHolding(S, n) ==
    [cell_indices |-> [k \in 1..GridCapacity |->
                          IF k <= n THEN Lowest(S, k) - 1 ELSE -1],
     count |-> n, _pad |-> <<0, 0, 0>>]

\* voxel v has a GridCell in the vector returned: its index z*g*g + y*g + x
\* is a u32 below the vector's length
HasCell(v) ==
    LET idx == GridIndex(v[1], v[2], v[3], grid.grid_size)
    IN  grid.pc = "built" /\ ~idx.overflow /\ U32Less(idx.value, grid.len)

\* the GridCell of voxel v in the vector returned
CellOf(v) ==
    GridCellAt(grid.cells, GridIndex(v[1], v[2], v[3], grid.grid_size).value)

\* C13: in every grid that build returns no voxel has a count above 8, and
\* for every input a voxel with more than 8 seeds in its neighbourhood ends
\* with count 8 and the 8 lowest-index of them, build returning normally.
C13_CapacitySaturates ==
    grid.pc # "input" =>
        /\ \A idx \in DOMAIN grid.cells : grid.cells[idx].count <= GridCapacity
        /\ \A v \in NearVoxels :
               Cardinality(NearSeeds(v)) > GridCapacity =>
                   /\ HasCell(v)
                   /\ CellOf(v) = CellHolding(NearSeeds(v), GridCapacity)

\* C20: for every input in which no voxel has 8 or more seeds in its
\* neighbourhood, each voxel of the grid in a seed's neighbourhood has a
\* GridCell in the vector returned, holding exactly the seeds it is in the
\* neighbourhood of, once each; no other GridCell holds any seed; a seed is
\* in at most 27 voxels.
C20_RegistersNeighbourhood ==
    /\ grid.pc # "input"
    /\ \A v \in NearVoxels : Cardinality(NearSeeds(v)) < GridCapacity
    => /\ \A v \in NearVoxels :
              /\ HasCell(v)
              /\ CellOf(v) = CellHolding(NearSeeds(v), Cardinality(NearSeeds(v)))
       /\ \A idx \in DOMAIN grid.cells :
              \E v \in NearVoxels :
                  idx = GridIndex(v[1], v[2], v[3], grid.grid_size).value
       /\ \A i \in 1..Len(grid.voronoi_cells) :
              Cardinality({v \in NearVoxels : Near(SeedVoxel(i), v)}) <= 27

\* floor((pos - volume_min) / voxel_size) clamped into [0, grid_size - 1] on
\* axis a, for a box of positive extent: voxel_size is extent / grid_size
ClampedFloor(pos, a) ==
    LET q == ((pos[a] - grid.volume_min[a]) * grid.grid_size)
                 \div (grid.volume_max[a] - grid.volume_min[a])
    IN  IF q < 0 THEN 0
        ELSE IF q > grid.grid_size - 1 THEN grid.grid_size - 1
        ELSE q

\* the vector returned has grid_size^3 cells: the cube fits a u32
CubeCells == ~TotalCells(grid.grid_size).overflow
                 /\ grid.len = TotalCells(grid.grid_size).value

\* C21: for every grid_size >= 1 and every seed, inside, on or outside the
\* box, build returns; the seed's voxel is the clamped floor on each axis and
\* the seed is stored in that voxel's cell unless the cell is full; every
\* index used is inside the vector of grid_size^3 cells.
C21_ClampedVoxel ==
    grid.pc # "input" /\ grid.grid_size >= 1 =>
        /\ grid.pc = "built"
        /\ CubeCells
        /\ \A idx \in DOMAIN grid.cells : U32Less(idx, grid.len)
        /\ \A i \in 1..Len(grid.voronoi_cells) :
               LET v == [a \in 1..3 |->
                            ClampedFloor(grid.voronoi_cells[i].position, a)]
               IN  /\ SeedVoxel(i) = v
                   /\ HasCell(v)
                   /\ \/ CellOf(v).count = GridCapacity
                      \/ \E k \in 1..CellOf(v).count :
                             CellOf(v).cell_indices[k] = i - 1

\* a GridCell's slots below count hold strictly increasing indices of seeds
\* and the other slots hold -1
WellFormed(grid_cell) ==
    /\ grid_cell.count \in 0..GridCapacity
    /\ \A k \in 1..GridCapacity :
           IF k <= grid_cell.count
           THEN /\ grid_cell.cell_indices[k] \in 0..(Len(grid.voronoi_cells) - 1)
                /\ k > 1 => grid_cell.cell_indices[k - 1] < grid_cell.cell_indices[k]
           ELSE grid_cell.cell_indices[k] = -1

\* C26: every grid that build returns has exactly grid_size^3 cells, each
\* holding in its slots below count pairwise distinct, strictly increasing
\* indices of seeds, and -1 in the other slots.
C26_CellsWellFormed ==
    grid.pc = "built" =>
        /\ CubeCells
        /\ WellFormed(EmptyGridCell)
        /\ \A idx \in DOMAIN grid.cells :
               /\ U32Less(idx, grid.len)
               /\ WellFormed(grid.cells[idx])

\* a GpuState has been constructed (and, on wasm32, stored or taken)
Initialized == gpu # NoGpu \/ pending # <<>>

\* this step constructs a GpuState: the native resumed, or the completion of
\* the future that the wasm32 resumed spawned
Constructs ==
    last'.event \in {"resumed", "init_task"} /\ next_texture_id' # next_texture_id

\* a resumed notification that found the phase other than Uninitialized
RepeatedResumed == last'.event = "resumed" /\ ~last'.handled

\* C22: a GpuState is constructed only when none has been, and stays; once
\* initialization has started the phase never is Uninitialized again and a
\* further resumed changes nothing; every handler that calls render or resize
\* runs with the phase Running and the constructed GpuState.
C22_InitializedOnce ==
    [][/\ Constructs => ~Initialized /\ Initialized' /\ phase # "Running"
       /\ Initialized => Initialized'
       /\ phase # "Uninitialized" => phase' # "Uninitialized"
       /\ RepeatedResumed =>
              /\ phase # "Uninitialized"
              /\ UNCHANGED <<target, overflow_checks, phase, init_task, pending, gpu,
                             time, keys_held, exit_requested, crashed,
                             next_texture_id>>
       /\ last'.calls # <<>> =>
              /\ PhaseNow = "Running" /\ phase' = "Running"
              /\ Initialized /\ GpuNow # NoGpu
              /\ last'.event \in {"Resized", "RedrawRequested"}]_vars

\* a frame has been rendered on wasm32 and resumed is notified again
C22_Witness ==
    /\ last.event = "resumed" /\ ~last.handled
    /\ target = "wasm32" /\ phase = "Running" /\ time > 0

\* the record in the raymarch parameter buffer carries the tunables rp
CarriesTunables(buffer, rp) ==
    /\ buffer.max_steps = rp.max_steps
    /\ buffer.step_size = rp.step_size
    /\ buffer.membrane_thickness = rp.membrane_thickness
    /\ buffer.membrane_glow = rp.membrane_glow
    /\ buffer.density_multiplier = rp.density
    /\ buffer.palette = rp.palette
    /\ rp.enable_coupling => buffer.enable_coupling = 1000
    /\ ~rp.enable_coupling => buffer.enable_coupling = 0

\* C23: every frame writes the raymarch parameter buffer, and the record it
\* leaves there carries the runtime tunables read for the frame unchanged,
\* the coupling flag as 1.0 or 0.0 (in thousandths), the volume box
\* (-12,-12,-12) to (12,12,12) and zero in the three pad fields.
C23_ParamsRecord ==
    [][RedrawStep =>
          /\ Contains(last'.calls, "queue.write_buffer(raymarch_params_buffer)")
          /\ \E rp \in ReadJsParams(target) :
                 CarriesTunables(gpu'.raymarch_params_buffer, rp)
          /\ gpu'.raymarch_params_buffer.enable_coupling \in {0, 1000}
          /\ gpu'.raymarch_params_buffer.volume_min = <<-12000, -12000, -12000>>
          /\ gpu'.raymarch_params_buffer.volume_max = <<12000, 12000, 12000>>
          /\ gpu'.raymarch_params_buffer._pad0 = 0
          /\ gpu'.raymarch_params_buffer._pad1 = 0
          /\ gpu'.raymarch_params_buffer._pad2 = 0]_vars

\* a wasm32 frame written with coupling disabled and the tunables of the page
C23_Witness ==
    /\ last.event = "RedrawRequested" /\ last.handled
    /\ target = "wasm32"
    /\ gpu.raymarch_params_buffer.enable_coupling = 0
    /\ gpu.raymarch_params_buffer.max_steps = 64
    /\ gpu.raymarch_params_buffer.palette = 2

\* the recorded size and the surface configuration of g are the same
\* dimensions, both at least 1
SizePositive(g) ==
    /\ ~ZeroDim(g.size)
    /\ g.config.width = g.size.width /\ g.config.height = g.size.height

\* every GpuState that exists, taken or still pending, has positive dimensions
AllSizesPositive ==
    /\ gpu # NoGpu => SizePositive(gpu)
    /\ \A i \in 1..Len(pending) : SizePositive(pending[i])

\* the recovery of a lost surface reconfigured the surface
LostReconfigured == Contains(last'.calls, "surface.configure")

\* C24 as stated: after construction and any resize and render calls the
\* recorded size and the surface configuration are at least 1 in both
\* dimensions, render never divides by a zero height, and the recovery of a
\* lost surface always reconfigures.
C24_PositiveAndRecoveryEffective ==
    [][/\ AllSizesPositive'
       /\ RedrawStep => GpuNow.size.height # U32(0)
       /\ RedrawStep /\ last'.result = "Lost" => LostReconfigured]_vars

\* C24 amended: the dimensions are at least 1 and render never divides by a
\* zero height; the recovery of a lost surface reconfigures, except on wasm32
\* with a recorded dimension below 100 while the browser window's inner size
\* has a zero, where it changes nothing.
C24_PositiveSizes ==
    [][/\ AllSizesPositive'
       /\ RedrawStep => GpuNow.size.height # U32(0)
       /\ RedrawStep /\ last'.result = "Lost" =>
              IF target = "wasm32" /\ BelowHundred(GpuNow.size) /\ ZeroDim(last'.web_inner)
              THEN ~LostReconfigured /\ SizeDependentUnchanged /\ SizePositive(gpu')
              ELSE LostReconfigured]_vars

\* a surface constructed for a window of width 0, recorded as 1x720, was
\* lost and recovered by a resize at the recorded size
C24_Witness ==
    /\ last.event = "RedrawRequested" /\ last.handled
    /\ last.result = "Lost"
    /\ Contains(last.calls, "surface.configure")
    /\ target = "native"
    /\ gpu.size = PhysicalSize(U32(1), U32(720))

WindowEvents == {"Resized", "RedrawRequested", "KeyboardInput", "CloseRequested"}

\* this step delivers a window event
WindowEventStep == last'.event \in WindowEvents

\* the dimensions of the surface after the step are those before it
KeepsDims ==
    /\ gpu'.size = GpuNow.size
    /\ gpu'.config.width = GpuNow.config.width
    /\ gpu'.config.height = GpuNow.config.height
    /\ gpu'.surface = GpuNow.surface

\* C25: a window event delivered while the phase is not Running and no
\* finished GpuState is pending is not handled and changes nothing (a Resized
\* among them: its size is not applied later either, the pending GpuState
\* keeping the dimensions it was constructed with); and the surface's
\* dimensions change only in a handled Resized, unless a wasm32 surface has a
\* dimension below 100, which no construction on wasm32 produces.
C25_DroppedWhileNotRunning ==
    [][/\ WindowEventStep /\ PhaseNow # "Running" =>
              /\ ~last'.handled /\ last'.calls = <<>>
              /\ UNCHANGED <<target, overflow_checks, phase, init_task, pending, gpu,
                             time, keys_held, exit_requested, crashed,
                             next_texture_id>>
       /\ WindowEventStep /\ PhaseNow = "Running" => last'.handled
       /\ Constructs /\ target = "wasm32" =>
              \A i \in 1..Len(pending') : ~BelowHundred(pending'[i].size)
       /\ pending # <<>> /\ ~Promoted => pending' = pending
       /\ ~WindowEventStep /\ gpu # NoGpu => gpu' = gpu
       /\ /\ WindowEventStep /\ PhaseNow = "Running"
          /\ ~ResizedStep
          /\ ~(target = "wasm32" /\ BelowHundred(GpuNow.size))
          => KeepsDims]_vars

\* a Resized event arrived on wasm32 while the spawned initialization was
\* still running, and was dropped
C25_Witness ==
    /\ target = "wasm32" /\ phase = "Initializing"
    /\ init_task = "running" /\ pending = <<>>
    /\ last.event = "Resized" /\ ~last.handled
    /\ last.size = PhysicalSize(U32(1280), U32(720))
    /\ gpu = NoGpu

====
